---- MODULE Spec2Model ----
(***************************************************************************)
(* babysum: run() of src/main.rs as a state machine.                       *)
(*                                                                         *)
(* run() reads every event from stdin, sorts the events by time, folds     *)
(* them into a date-keyed map of Sum records (with the prev_bottle state   *)
(* of the bottle-session rule), and prints one mean Sum for every window   *)
(* of WINDOW_DAYS consecutive map entries.                                 *)
(*                                                                         *)
(* Units.  Instants are minutes since local midnight of day 0, so that     *)
(* date() of an instant is the instant divided by MinutesPerDay.           *)
(* Durations are whole seconds.  An f32 ounce amount is a whole number of  *)
(* units of 2^-25 oz (every f32 from 1/4 oz up to 64 oz is one), and the   *)
(* f32 operations round as IEEE-754 binary32 does, to 24 significant bits, *)
(* ties to even (F32Add, F32Div).                                          *)
(***************************************************************************)
EXTENDS Integers, Sequences, FiniteSets, TLC

VARIABLES stdin, stdin_ok, pc, events, idx, m, prev_bottle, summaries, w, out, result

vars == <<stdin, stdin_ok, pc, events, idx, m, prev_bottle, summaries, w, out, result>>

(***************************************************************************)
(* Bounds of the model and constants of the program.                       *)
(***************************************************************************)
MaxEvents == 3
MaxBottles == 4
MaxSleeps == 3
NDays == 8
MaxPermLen == 4

MinutesPerDay == 1440
SessionGapMinutes == 60
WINDOW_DAYS_Six == 7 - 1

WINDOW_DAYS == 7

(***************************************************************************)
(* Option<T>: None is the empty sequence, Some(x) the one-element one.     *)
(***************************************************************************)
None == <<>>
Some(x) == <<x>>

Date(t) == t \div MinutesPerDay

(***************************************************************************)
(* f32.  A finite non-negative f32 is an integer of at most 24 significant *)
(* bits times a power of two.  Sums are kept as integers in units of       *)
(* 2^-25 oz; a quotient is kept as mant * 2^(-shift) units.                *)
(***************************************************************************)
RECURSIVE Pow2(_)
Pow2(k) == IF k = 0 THEN 1 ELSE 2 * Pow2(k - 1)

\* Round the rational num / den to the nearest integer, ties to even.
RoundHalfEven(num, den) ==
    LET q == num \div den
        r == num % den
    IN IF (2 * r > den) \/ (2 * r = den /\ q % 2 = 1) THEN q + 1 ELSE q

\* The least j >= 0 with x / 2^j below 2^24.
RECURSIVE ScaleDown(_, _)
ScaleDown(x, j) == IF x \div Pow2(j) < Pow2(24) THEN j ELSE ScaleDown(x, j + 1)

\* The least k >= 0 with n * 2^k / den at least 2^23.
RECURSIVE ScaleUp(_, _, _)
ScaleUp(n, den, k) ==
    IF n * Pow2(k) >= den * Pow2(23) THEN k ELSE ScaleUp(n, den, k + 1)

\* f32 + f32 of two amounts given in units.
F32Add(a, b) ==
    LET x == a + b
        j == ScaleDown(x, 0)
    IN RoundHalfEven(x, Pow2(j)) * Pow2(j)

\* f32 / f32 of the amount n (in units) by d: the result is
\* mant * 2^(-shift) units with 2^23 <= mant < 2^24, or zero.
F32Div(n, d) ==
    IF n = 0 THEN [mant |-> 0, shift |-> 0]
    ELSE LET j == ScaleDown(n \div d, 0)
             k == IF j > 0 THEN 0 ELSE ScaleUp(n, d, 0)
             mt == RoundHalfEven(n * Pow2(k), d * Pow2(j))
         IN IF mt = Pow2(24) THEN [mant |-> Pow2(23), shift |-> k - j - 1]
            ELSE [mant |-> mt, shift |-> k - j]

\* The amounts of the inputs: n eighths of an ounce (exact in f32), and the
\* f32 nearest to n tenths of an ounce (n >= 3).
Eighths(n) == n * Pow2(22)
Tenths(n) ==
    LET r == F32Div(n * Pow2(25), 10) IN r.mant * Pow2(0 - r.shift)

(***************************************************************************)
(* Events.  Every event is a record with the same fields; a field an       *)
(* event kind does not have is zero / FALSE / None.  time is the value of  *)
(* Event::time(), the sort key: the time of a Diaper or Feeding, the start *)
(* of a Pumping, TummyTime or Sleep.                                       *)
(***************************************************************************)
Ev(kind, time, poo, ounces, duration, end) ==
    [kind |-> kind, time |-> time, poo |-> poo, ounces |-> ounces,
     duration |-> duration, end |-> end]

Diaper(t, poo) == Ev("Diaper", t, poo, 0, 0, None)
Bottle(t, oz) == Ev("Bottle", t, FALSE, oz, 0, None)
LeftBreast(t, dur) == Ev("LeftBreast", t, FALSE, 0, dur, None)
RightBreast(t, dur) == Ev("RightBreast", t, FALSE, 0, dur, None)
Pumping(t, oz) == Ev("Pumping", t, FALSE, oz, 0, None)
TummyTime(t, dur) == Ev("TummyTime", t, FALSE, 0, dur, None)
Sleep(t, mins, hasEnd) ==
    Ev("Sleep", t, FALSE, 0, mins * 60, IF hasEnd THEN Some(t + mins) ELSE None)
Other(t) == Ev("Other", t, FALSE, 0, 0, None)

(***************************************************************************)
(* Sum::new()                                                              *)
(***************************************************************************)
SumNew ==
    [total_diapers |-> 0, poo_diapers |-> 0, bottle_oz |-> 0,
     bottle_sessions |-> 0, breast_duration |-> 0, pumping_oz |-> 0,
     tummy_time_duration |-> 0, max_sleep_duration |-> 0,
     total_sleep_duration |-> 0]

EmptyMap == [d \in {} |-> SumNew]

(***************************************************************************)
(* events.sort_by_key(|e| e.time()): a stable sort, ascending by time.     *)
(***************************************************************************)
InsertByKey(s, e) ==
    LET k == Cardinality({i \in 1..Len(s) : s[i].time <= e.time})
    IN SubSeq(s, 1, k) \o <<e>> \o SubSeq(s, k + 1, Len(s))

SortByKey_Unsorted(s) == s

RECURSIVE SortByKey(_)
SortByKey(s) ==
    IF s = <<>> THEN <<>>
    ELSE InsertByKey(SortByKey(SubSeq(s, 1, Len(s) - 1)), s[Len(s)])

(***************************************************************************)
(* m.entry(date).or_insert(Sum::new())                                     *)
(***************************************************************************)
Entry_Fresh(mm, d) == (d :> SumNew) @@ mm

Entry(mm, d) == IF d \in DOMAIN mm THEN mm ELSE mm @@ (d :> SumNew)

(***************************************************************************)
(* The arms of the match on the event.                                     *)
(***************************************************************************)
AfterDiaper_PooOrTotal(mm, ev) ==
    LET d == Date(ev.time)
        e == Entry(mm, d)
    IN [e EXCEPT ![d].total_diapers = IF ev.poo THEN @ ELSE @ + 1,
                 ![d].poo_diapers = IF ev.poo THEN @ + 1 ELSE @]

AfterDiaper(mm, ev) ==
    LET d == Date(ev.time)
        e == Entry(mm, d)
    IN [e EXCEPT ![d].total_diapers = @ + 1,
                 ![d].poo_diapers = IF ev.poo THEN @ + 1 ELSE @]

\* The condition under which the increment of bottle_sessions is taken back.
MergeUndo_AnyDate(prev, t) ==
    /\ prev # None
    /\ t - prev[1] > SessionGapMinutes

MergeUndo_AtLeast(prev, t) ==
    /\ prev # None
    /\ Date(prev[1]) = Date(t)
    /\ t - prev[1] >= SessionGapMinutes

MergeUndo(prev, t) ==
    /\ prev # None
    /\ Date(prev[1]) = Date(t)
    /\ t - prev[1] > SessionGapMinutes

AfterBottle_OzWhenCounted(mm, prev, ev) ==
    LET d == Date(ev.time)
        e == Entry(mm, d)
        undo == MergeUndo(prev, ev.time)
    IN [e EXCEPT ![d].bottle_sessions = IF undo THEN (@ + 1) - 1 ELSE @ + 1,
                 ![d].bottle_oz = IF undo THEN @ ELSE F32Add(@, ev.ounces)]

AfterBottle_UndoOnly(mm, prev, ev) ==
    LET d == Date(ev.time)
        e == Entry(mm, d)
    IN [e EXCEPT ![d].bottle_sessions =
                     IF MergeUndo(prev, ev.time) THEN @ - 1 ELSE @ + 1,
                 ![d].bottle_oz = F32Add(@, ev.ounces)]

AfterBottle(mm, prev, ev) ==
    LET d == Date(ev.time)
        e == Entry(mm, d)
    IN [e EXCEPT ![d].bottle_sessions =
                     IF MergeUndo(prev, ev.time) THEN (@ + 1) - 1 ELSE @ + 1,
                 ![d].bottle_oz = F32Add(@, ev.ounces)]

AfterBreast(mm, ev) ==
    LET d == Date(ev.time)
        e == Entry(mm, d)
    IN [e EXCEPT ![d].breast_duration = @ + ev.duration]

AfterPumping(mm, ev) ==
    LET d == Date(ev.time)
        e == Entry(mm, d)
    IN [e EXCEPT ![d].pumping_oz = F32Add(@, ev.ounces)]

AfterTummyTime(mm, ev) ==
    LET d == Date(ev.time)
        e == Entry(mm, d)
    IN [e EXCEPT ![d].tummy_time_duration = @ + ev.duration]

AfterSleep_NoEndByStart(mm, ev) ==
    LET d == IF ev.end # None THEN Date(ev.end[1]) ELSE Date(ev.time)
        e == Entry(mm, d)
    IN [e EXCEPT ![d].max_sleep_duration =
                     IF ev.duration > @ THEN ev.duration ELSE @,
                 ![d].total_sleep_duration = @ + ev.duration]

AfterSleep_ByStart(mm, ev) ==
    IF ev.end # None
    THEN LET d == Date(ev.time)
             e == Entry(mm, d)
         IN [e EXCEPT ![d].max_sleep_duration =
                          IF ev.duration > @ THEN ev.duration ELSE @,
                      ![d].total_sleep_duration = @ + ev.duration]
    ELSE mm

AfterSleep_LastWins(mm, ev) ==
    IF ev.end # None
    THEN LET d == Date(ev.end[1])
             e == Entry(mm, d)
         IN [e EXCEPT ![d].max_sleep_duration = ev.duration,
                      ![d].total_sleep_duration = @ + ev.duration]
    ELSE mm

AfterSleep_OpenCreatesEntry(mm, ev) ==
    IF ev.end # None
    THEN LET d == Date(ev.end[1])
             e == Entry(mm, d)
         IN [e EXCEPT ![d].max_sleep_duration =
                          IF ev.duration > @ THEN ev.duration ELSE @,
                      ![d].total_sleep_duration = @ + ev.duration]
    ELSE Entry(mm, Date(ev.time))

AfterSleep_TotalInElse(mm, ev) ==
    IF ev.end # None
    THEN LET d == Date(ev.end[1])
             e == Entry(mm, d)
             longer == ev.duration > e[d].max_sleep_duration
         IN [e EXCEPT ![d].max_sleep_duration = IF longer THEN ev.duration ELSE @,
                      ![d].total_sleep_duration =
                          IF longer THEN @ ELSE @ + ev.duration]
    ELSE mm

AfterSleep(mm, ev) ==
    IF ev.end # None
    THEN LET d == Date(ev.end[1])
             e == Entry(mm, d)
         IN [e EXCEPT ![d].max_sleep_duration =
                          IF ev.duration > @ THEN ev.duration ELSE @,
                      ![d].total_sleep_duration = @ + ev.duration]
    ELSE mm

\* prev_bottle = Some(bev.time)
PrevAfterBottle_KeepWhenUndone(prev, ev) ==
    IF MergeUndo(prev, ev.time) THEN prev ELSE Some(ev.time)

PrevAfterBottle(prev, ev) == Some(ev.time)

(***************************************************************************)
(* The loop over the events as a function: one iteration takes the pair    *)
(* (m, prev_bottle) to the next pair; DailyMap(input) is the map the loop  *)
(* leaves for the events of input, sorted.                                 *)
(***************************************************************************)
LoopStep(st, ev) ==
    [m |-> CASE ev.kind = "Diaper" -> AfterDiaper(st.m, ev)
             [] ev.kind = "Bottle" -> AfterBottle(st.m, st.prev, ev)
             [] ev.kind \in {"LeftBreast", "RightBreast"} -> AfterBreast(st.m, ev)
             [] ev.kind = "Pumping" -> AfterPumping(st.m, ev)
             [] ev.kind = "TummyTime" -> AfterTummyTime(st.m, ev)
             [] ev.kind = "Sleep" -> AfterSleep(st.m, ev)
             [] OTHER -> st.m,
     prev |-> IF ev.kind = "Bottle" THEN PrevAfterBottle(st.prev, ev) ELSE st.prev]

RECURSIVE LoopOver(_, _)
LoopOver(st, es) ==
    IF es = <<>> THEN st ELSE LoopOver(LoopStep(st, Head(es)), Tail(es))

DailyMap(input) == LoopOver([m |-> EmptyMap, prev |-> None], SortByKey(input)).m

(***************************************************************************)
(* m.iter().collect(): the keys of the map in ascending order (the Sum of  *)
(* a key is read from m, which no longer changes).                         *)
(***************************************************************************)
RECURSIVE SortedKeys(_)
SortedKeys(S) ==
    IF S = {} THEN <<>>
    ELSE LET mn == CHOOSE x \in S : \A y \in S : x <= y
         IN <<mn>> \o SortedKeys(S \ {mn})

(***************************************************************************)
(* Arithmetic of the window mean.                                          *)
(***************************************************************************)
\* i32 / i32 and i64 / i64: division truncating toward zero.
TruncDiv(a, b) == IF a >= 0 THEN a \div b ELSE -((-a) \div b)

MeanCount_RoundUp(x) == TruncDiv(x + (WINDOW_DAYS - 1), WINDOW_DAYS)

MeanCount(x) == TruncDiv(x, WINDOW_DAYS)

MeanDuration_Nearest(x) == TruncDiv(2 * x + WINDOW_DAYS, 2 * WINDOW_DAYS)

MeanDuration(x) == TruncDiv(x, WINDOW_DAYS)

MeanOz(x) == F32Div(x, WINDOW_DAYS)

\* The closure of the fold: acc plus one entry, field by field.
FoldStep(acc, x) ==
    [total_diapers |-> acc.total_diapers + x.total_diapers,
     poo_diapers |-> acc.poo_diapers + x.poo_diapers,
     bottle_oz |-> F32Add(acc.bottle_oz, x.bottle_oz),
     bottle_sessions |-> acc.bottle_sessions + x.bottle_sessions,
     breast_duration |-> acc.breast_duration + x.breast_duration,
     pumping_oz |-> F32Add(acc.pumping_oz, x.pumping_oz),
     tummy_time_duration |-> acc.tummy_time_duration + x.tummy_time_duration,
     max_sleep_duration |-> acc.max_sleep_duration + x.max_sleep_duration,
     total_sleep_duration |-> acc.total_sleep_duration + x.total_sleep_duration]

RECURSIVE WindowFold(_, _, _)
WindowFold(acc, mm, win) ==
    IF win = <<>> THEN acc
    ELSE WindowFold(FoldStep(acc, mm[Head(win)]), mm, Tail(win))

MeanSum(sum) ==
    [total_diapers |-> MeanCount(sum.total_diapers),
     poo_diapers |-> MeanCount(sum.poo_diapers),
     bottle_oz |-> MeanOz(sum.bottle_oz),
     bottle_sessions |-> MeanCount(sum.bottle_sessions),
     breast_duration |-> MeanDuration(sum.breast_duration),
     pumping_oz |-> MeanOz(sum.pumping_oz),
     tummy_time_duration |-> MeanDuration(sum.tummy_time_duration),
     max_sleep_duration |-> MeanDuration(sum.max_sleep_duration),
     total_sleep_duration |-> MeanDuration(sum.total_sleep_duration)]

\* summaries.windows(WINDOW_DAYS): the window that starts at position i.
HasWindow(s, i) == i + WINDOW_DAYS - 1 <= Len(s)
WindowAt(s, i) == SubSeq(s, i, i + WINDOW_DAYS - 1)

WindowLabel_First(win) == win[1]

WindowLabel(win) == win[Len(win)]

(***************************************************************************)
(* Inputs.  Day 0 is minutes 0..1439, day 1 is minutes 1440..2879, ...     *)
(* 1430 is 23:50 of day 0, 1450 is 00:10 of day 1, 2040 is 10:00 of day 1. *)
(***************************************************************************)
SeqsUpTo(U, n) == UNION {[1..k -> U] : k \in 0..n}

\* Events of every kind on days 0 and 1.
EventUniverse ==
    {Diaper(1430, TRUE), Diaper(2040, FALSE),
     Bottle(1450, Eighths(20)), Bottle(2040, Eighths(12)),
     Bottle(2070, Eighths(20)),
     LeftBreast(2040, 600), RightBreast(1430, 900),
     Pumping(2040, Eighths(8)),
     TummyTime(2040, 300),
     Sleep(1400, 120, TRUE), Sleep(1500, 60, FALSE),
     Other(2040)}

\* Bottles at 23:50, then 00:10, 10:00, 10:30, 11:30 and 11:31 of the next day.
BottleTimes == {1430, 1450, 2040, 2070, 2130, 2131}
BottleUniverse == {Bottle(t, Eighths(16)) : t \in BottleTimes}

\* Bottles and pumpings at 10:00 of day 1, of 0.3, 0.4 and 0.6 oz.
OunceUniverse ==
    {Bottle(2040, Tenths(n)) : n \in {3, 4, 6}}
        \cup {Pumping(2040, Tenths(n)) : n \in {3, 4, 6}}

\* Sleeps that start at 23:20 of day 0 or at 01:00 of day 1.
SleepUniverse ==
    {Sleep(t, mins, TRUE) : t \in {1400, 1500}, mins \in {30, 60, 120}}
        \cup {Sleep(t, 60, FALSE) : t \in {1400, 1500}}

\* A longer log, kept on four days out of five: its d-th day is the date
\* LogDate(d), and holds nothing or one of two profiles.
LogDate(d) == d + (d \div 4)

DayProfile(d, p) ==
    LET base == LogDate(d) * MinutesPerDay
    IN CASE p = 0 -> <<>>
         [] p = 1 -> <<Sleep(base + 60, 60 + d, TRUE), Diaper(base + 480, TRUE),
                       Sleep(base + 600, 30, TRUE)>>
         [] p = 2 -> <<Diaper(base + 420, FALSE), Bottle(base + 430, Eighths(20 + d)),
                       LeftBreast(base + 700, 600 + 10 * d),
                       TummyTime(base + 800, 250 + d),
                       Pumping(base + 900, Eighths(9))>>

RECURSIVE ConcatDays(_, _)
ConcatDays(plan, d) ==
    IF d < 0 THEN <<>> ELSE DayProfile(d, plan[d]) \o ConcatDays(plan, d - 1)

\* The logs that miss at most two of their NDays days.
LogPlans ==
    {plan \in [0..(NDays - 1) -> 0..2] :
        Cardinality({d \in 0..(NDays - 1) : plan[d] = 0}) <= 2}

LogInputs == {ConcatDays(plan, NDays - 1) : plan \in LogPlans}

\* Seven days with 2, 3, 1, 4, 2, 0 and 5 diapers.
RECURSIVE DiapersOn(_, _)
DiapersOn(d, n) ==
    IF n = 0 THEN <<>>
    ELSE DiapersOn(d, n - 1) \o <<Diaper(d * MinutesPerDay + 60 * n, n % 2 = 0)>>

DiaperExample ==
    DiapersOn(0, 2) \o DiapersOn(1, 3) \o DiapersOn(2, 1) \o DiapersOn(3, 4)
        \o DiapersOn(4, 2) \o <<RightBreast(5 * MinutesPerDay + 600, 1200)>>
        \o DiapersOn(6, 5)

Inputs ==
    SeqsUpTo(EventUniverse, MaxEvents) \cup SeqsUpTo(BottleUniverse, MaxBottles)
        \cup SeqsUpTo(SleepUniverse, MaxSleeps)
        \cup SeqsUpTo(OunceUniverse, MaxEvents) \cup LogInputs
        \cup {DiaperExample}

(***************************************************************************)
(* The state machine.                                                      *)
(*   pc = "read"    before the events are collected        (lines 75-79)   *)
(*   pc = "agg"     in the loop over the sorted events     (lines 80-126)  *)
(*   pc = "window"  in the loop over the windows           (lines 127-156) *)
(*   pc = "done"    run() has returned Ok(())              (line 160)      *)
(*   pc = "abort"   unwrap() has panicked on a bad record  (line 76)       *)
(***************************************************************************)
Init ==
    /\ stdin \in Inputs
    /\ stdin_ok \in BOOLEAN
    /\ pc = "read"
    /\ events = <<>>
    /\ idx = 1
    /\ m = EmptyMap
    /\ prev_bottle = None
    /\ summaries = <<>>
    /\ w = 1
    /\ out = <<>>
    /\ result = "running"

\* Every record parses: collect, sort, create the empty map.
Collect ==
    /\ pc = "read"
    /\ stdin_ok
    /\ events' = SortByKey(stdin)
    /\ m' = EmptyMap
    /\ prev_bottle' = None
    /\ idx' = 1
    /\ pc' = "agg"
    /\ UNCHANGED <<stdin, stdin_ok, summaries, w, out, result>>

\* A record does not parse: r.unwrap() panics.
UnwrapPanic ==
    /\ pc = "read"
    /\ ~stdin_ok
    /\ pc' = "abort"
    /\ result' = "panic"
    /\ UNCHANGED <<stdin, stdin_ok, events, idx, m, prev_bottle, summaries, w, out>>

AtEvent(kinds) ==
    /\ pc = "agg"
    /\ idx <= Len(events)
    /\ events[idx].kind \in kinds

ProcessDiaper ==
    /\ AtEvent({"Diaper"})
    /\ m' = AfterDiaper(m, events[idx])
    /\ idx' = idx + 1
    /\ UNCHANGED <<stdin, stdin_ok, pc, events, prev_bottle, summaries, w, out, result>>

ProcessBottle ==
    /\ AtEvent({"Bottle"})
    /\ m' = AfterBottle(m, prev_bottle, events[idx])
    /\ prev_bottle' = PrevAfterBottle(prev_bottle, events[idx])
    /\ idx' = idx + 1
    /\ UNCHANGED <<stdin, stdin_ok, pc, events, summaries, w, out, result>>

ProcessBreast ==
    /\ AtEvent({"LeftBreast", "RightBreast"})
    /\ m' = AfterBreast(m, events[idx])
    /\ idx' = idx + 1
    /\ UNCHANGED <<stdin, stdin_ok, pc, events, prev_bottle, summaries, w, out, result>>

ProcessPumping ==
    /\ AtEvent({"Pumping"})
    /\ m' = AfterPumping(m, events[idx])
    /\ idx' = idx + 1
    /\ UNCHANGED <<stdin, stdin_ok, pc, events, prev_bottle, summaries, w, out, result>>

ProcessTummyTime ==
    /\ AtEvent({"TummyTime"})
    /\ m' = AfterTummyTime(m, events[idx])
    /\ idx' = idx + 1
    /\ UNCHANGED <<stdin, stdin_ok, pc, events, prev_bottle, summaries, w, out, result>>

ProcessSleep ==
    /\ AtEvent({"Sleep"})
    /\ m' = AfterSleep(m, events[idx])
    /\ idx' = idx + 1
    /\ UNCHANGED <<stdin, stdin_ok, pc, events, prev_bottle, summaries, w, out, result>>

\* Every other kind of event: the arm _ => {}.
ProcessOther ==
    /\ AtEvent({"Other"})
    /\ idx' = idx + 1
    /\ UNCHANGED <<stdin, stdin_ok, pc, events, m, prev_bottle, summaries, w, out, result>>

\* The loop over the events is over: collect the entries of the map.
CollectSummaries ==
    /\ pc = "agg"
    /\ idx > Len(events)
    /\ summaries' = SortedKeys(DOMAIN m)
    /\ w' = 1
    /\ pc' = "window"
    /\ UNCHANGED <<stdin, stdin_ok, events, idx, m, prev_bottle, out, result>>

\* One iteration of the loop over the windows: fold, mean, print.
EmitWindow ==
    /\ pc = "window"
    /\ HasWindow(summaries, w)
    /\ LET window == WindowAt(summaries, w)
           sum == WindowFold(SumNew, m, window)
       IN out' = Append(out, [date |-> WindowLabel(window), mean |-> MeanSum(sum)])
    /\ w' = w + 1
    /\ UNCHANGED <<stdin, stdin_ok, pc, events, idx, m, prev_bottle, summaries, result>>

\* No window is left: run() returns Ok(()).
Return ==
    /\ pc = "window"
    /\ ~HasWindow(summaries, w)
    /\ pc' = "done"
    /\ result' = "Ok"
    /\ UNCHANGED <<stdin, stdin_ok, events, idx, m, prev_bottle, summaries, w, out>>

Next ==
    \/ Collect
    \/ UnwrapPanic
    \/ ProcessDiaper
    \/ ProcessBottle
    \/ ProcessBreast
    \/ ProcessPumping
    \/ ProcessTummyTime
    \/ ProcessSleep
    \/ ProcessOther
    \/ CollectSummaries
    \/ EmitWindow
    \/ Return

Spec == Init /\ [][Next]_vars

TypeOK ==
    /\ pc \in {"read", "agg", "window", "done", "abort"}
    /\ result \in {"running", "Ok", "panic"}
    /\ idx \in 1..(Len(events) + 1)
    /\ prev_bottle = None \/ Len(prev_bottle) = 1
    /\ \A d \in DOMAIN m : m[d].bottle_sessions >= 0

(***************************************************************************)
(* Vocabulary of the properties.                                           *)
(***************************************************************************)
Aggregating == pc \in {"agg", "window", "done"}

\* The events the loop has processed so far.
Processed ==
    IF pc = "agg" THEN SubSeq(events, 1, idx - 1)
    ELSE IF pc \in {"window", "done"} THEN events
    ELSE <<>>

IsBottle(e) == e.kind = "Bottle"
BottleTimesIn(s) ==
    LET b == SelectSeq(s, IsBottle) IN [i \in 1..Len(b) |-> b[i].time]

SessionsOn(d) == IF d \in DOMAIN m THEN m[d].bottle_sessions ELSE 0

RECURSIVE SeqSum(_)
SeqSum(s) == IF s = <<>> THEN 0 ELSE Head(s) + SeqSum(Tail(s))

SetMax(S) == IF S = {} THEN 0 ELSE CHOOSE x \in S : \A y \in S : y <= x

\* The sleeps with an end time on date d, and their durations.
EndsOn(e, d) == e.kind = "Sleep" /\ e.end # None /\ Date(e.end[1]) = d
SleepDurations(s, d) ==
    [i \in 1..Len(s) |-> IF EndsOn(s[i], d) THEN s[i].duration ELSE 0]

\* The k-th entry of the map in ascending date order, and the dates of the
\* k-th to (k+6)-th entries.
NthDate(k) == CHOOSE d \in DOMAIN m : Cardinality({e \in DOMAIN m : e <= d}) = k
WindowDates(k) == {NthDate(j) : j \in k..(k + 6)}

RECURSIVE SetSumField(_, _)
SetSumField(S, f) ==
    IF S = {} THEN 0
    ELSE LET x == CHOOSE y \in S : TRUE
         IN m[x][f] + SetSumField(S \ {x}, f)

SumFields ==
    {"total_diapers", "poo_diapers", "bottle_oz", "bottle_sessions",
     "breast_duration", "pumping_oz", "tummy_time_duration",
     "max_sleep_duration", "total_sleep_duration"}
CountFields == {"total_diapers", "poo_diapers", "bottle_sessions"}
DurationFields ==
    {"breast_duration", "tummy_time_duration", "max_sleep_duration",
     "total_sleep_duration"}

RefSum(S) == [f \in SumFields |-> SetSumField(S, f)]

(***************************************************************************)
(* C1.  Bottles at T, T+30min and T+90min of one date, and no other        *)
(* bottle: bottle_sessions of the date is 1 after the first, still 1 after *)
(* the second and 2 after the third.                                       *)
(* The code gives 1, 2 and 3: it takes the increment back when the gap is  *)
(* more than 60 minutes, and neither gap (30 and 60 minutes) is.           *)
(***************************************************************************)
C1_Case ==
    /\ Aggregating
    /\ LET b == BottleTimesIn(events)
       IN /\ Len(b) = 3
          /\ b[2] = b[1] + 30
          /\ b[3] = b[1] + 90
          /\ Date(b[1]) = Date(b[3])

\* C1 as stated: the net changes are +1, +0, +1 and the date ends with 2.
C1_Original ==
    C1_Case =>
        LET b == BottleTimesIn(events)
            n == Len(BottleTimesIn(Processed))
        IN SessionsOn(Date(b[1])) =
               CASE n = 0 -> 0 [] n = 1 -> 1 [] n = 2 -> 1 [] n = 3 -> 2

(***************************************************************************)
(* C2.  The final bottle_sessions of a date is the number of clusters of   *)
(* the date: a bottle opens a cluster when it is the first bottle of its   *)
(* date or more than 60 minutes after the previous bottle of its date.     *)
(***************************************************************************)
ClusterCount(b, d) ==
    Cardinality({i \in 1..Len(b) :
        /\ Date(b[i]) = d
        /\ \/ i = 1
           \/ Date(b[i - 1]) # d
           \/ b[i] - b[i - 1] > 60})

\* C2 as stated: every date ends with its number of clusters.
C2_Original ==
    pc = "done" =>
        \A d \in DOMAIN m :
            m[d].bottle_sessions = ClusterCount(BottleTimesIn(events), d)

(***************************************************************************)
(* C3.  A bottle whose previous bottle is on another date adds exactly 1   *)
(* to bottle_sessions of its own date, whatever the time between the two;  *)
(* a bottle at 23:50 and one at 00:10 of the next day give 1 session on    *)
(* each of the two dates.                                                  *)
(***************************************************************************)
C3_AtCrossDateBottle ==
    /\ pc = "agg"
    /\ idx <= Len(events)
    /\ events[idx].kind = "Bottle"
    /\ prev_bottle # None
    /\ Date(prev_bottle[1]) # Date(events[idx].time)

C3_CrossDateBottleAddsOne ==
    [][/\ C3_AtCrossDateBottle =>
            LET d == Date(events[idx].time)
            IN /\ d \in DOMAIN m'
               /\ m'[d].bottle_sessions = SessionsOn(d) + 1
       /\ pc' = "done" /\ BottleTimesIn(events') = <<1430, 1450>> =>
            m'[0].bottle_sessions = 1 /\ m'[1].bottle_sessions = 1]_vars

\* Both bottles of the 23:50 / 00:10 log are processed, one session each.
C3_Witness ==
    /\ pc = "done"
    /\ BottleTimesIn(events) = <<1430, 1450>>
    /\ prev_bottle = Some(1450)
    /\ m[0].bottle_sessions = 1
    /\ m[1].bottle_sessions = 1

(***************************************************************************)
(* C4.  Processing a Sleep with no end time changes nothing in the map:    *)
(* no entry is created and no field of an entry changes.                   *)
(***************************************************************************)
C4_AtOpenSleep ==
    /\ pc = "agg"
    /\ idx <= Len(events)
    /\ events[idx].kind = "Sleep"
    /\ events[idx].end = None

C4_OpenSleepLeavesMap == [][C4_AtOpenSleep => m' = m]_vars

\* A Sleep with no end has just been processed and the map has entries.
C4_Witness ==
    /\ pc = "agg"
    /\ idx > 1
    /\ events[idx - 1].kind = "Sleep"
    /\ events[idx - 1].end = None
    /\ \E d \in DOMAIN m : m[d].total_sleep_duration > 0

(***************************************************************************)
(* C5.  At any point of the aggregation, max_sleep_duration of a date is   *)
(* the largest duration of the processed sleeps that end on the date and   *)
(* total_sleep_duration is their sum; a sleep counts for the date of its   *)
(* end only, and every such date has an entry.                             *)
(***************************************************************************)
C5_SleepByEndDate ==
    Aggregating =>
        /\ \A d \in DOMAIN m :
              LET ds == SleepDurations(Processed, d)
              IN /\ m[d].max_sleep_duration = SetMax({ds[i] : i \in 1..Len(ds)})
                 /\ m[d].total_sleep_duration = SeqSum(ds)
        /\ \A i \in 1..Len(Processed) :
              LET e == Processed[i]
              IN e.kind = "Sleep" /\ e.end # None => Date(e.end[1]) \in DOMAIN m

\* Sleeps of 3600 s, 7200 s and 1800 s that end on day 1, and one more that
\* starts on day 0 and ends on day 1.
C5_Witness ==
    /\ pc = "done"
    /\ stdin = <<Sleep(1500, 60, TRUE), Sleep(1500, 120, TRUE), Sleep(1500, 30, TRUE)>>
    /\ m[1].max_sleep_duration = 7200
    /\ m[1].total_sleep_duration = 12600

(***************************************************************************)
(* C6.  After the aggregation the fields other than bottle_sessions and    *)
(* the sleep fields are the per-date totals of the input, each event       *)
(* counted once; bottle_oz counts every bottle, also one whose session     *)
(* increment was taken back.  The ounce fields are f32 sums, taken in      *)
(* ascending order of time.                                                *)
(***************************************************************************)
CountOn(d, kinds, needPoo) ==
    Cardinality({i \in 1..Len(stdin) :
        /\ stdin[i].kind \in kinds
        /\ Date(stdin[i].time) = d
        /\ (needPoo => stdin[i].poo)})

\* The f32 sum of a sequence of amounts, added from left to right.
RECURSIVE F32Sum(_)
F32Sum(s) ==
    IF s = <<>> THEN 0
    ELSE F32Add(F32Sum(SubSeq(s, 1, Len(s) - 1)), s[Len(s)])

\* The ounces of the events of date d, added in ascending order of time
\* (events of equal time in their order in the input).
OuncesOn(d, kinds) ==
    LET on(e) == e.kind \in kinds /\ Date(e.time) = d
        es == SelectSeq(SortByKey(stdin), on)
    IN F32Sum([i \in 1..Len(es) |-> es[i].ounces])

DurationOn(d, kinds) ==
    SeqSum([i \in 1..Len(stdin) |->
        IF stdin[i].kind \in kinds /\ Date(stdin[i].time) = d
        THEN stdin[i].duration ELSE 0])

C6_PerDateTotals ==
    pc = "done" =>
        /\ \A d \in DOMAIN m :
              /\ m[d].total_diapers = CountOn(d, {"Diaper"}, FALSE)
              /\ m[d].poo_diapers = CountOn(d, {"Diaper"}, TRUE)
              /\ m[d].bottle_oz = OuncesOn(d, {"Bottle"})
              /\ m[d].breast_duration = DurationOn(d, {"LeftBreast", "RightBreast"})
              /\ m[d].pumping_oz = OuncesOn(d, {"Pumping"})
              /\ m[d].tummy_time_duration = DurationOn(d, {"TummyTime"})
        /\ \A i \in 1..Len(stdin) :
              stdin[i].kind \notin {"Sleep", "Other"} =>
                  Date(stdin[i].time) \in DOMAIN m

\* Day 1 has two bottles, the later one with its increment taken back, and
\* the ounces of both.
C6_Witness ==
    /\ pc = "done"
    /\ 1 \in DOMAIN m
    /\ CountOn(1, {"Bottle"}, FALSE) = 2
    /\ m[1].bottle_sessions = 1
    /\ m[1].bottle_oz = Eighths(32)
    /\ m[1].total_diapers = 1

(***************************************************************************)
(* C7.  With fewer than 7 entries in the map (none, for an empty input)    *)
(* no window is emitted and run() returns Ok.                              *)
(***************************************************************************)
C7_FewEntriesNoWindow ==
    pc \in {"window", "done"} /\ Cardinality(DOMAIN m) < 7 =>
        /\ out = <<>>
        /\ result # "panic"
        /\ pc = "done" => result = "Ok"

\* run() has returned with 6 entries in the map and nothing printed.
C7_Witness ==
    /\ pc = "done"
    /\ Cardinality(DOMAIN m) = 6
    /\ out = <<>>
    /\ result = "Ok"

(***************************************************************************)
(* C8.  With n >= 7 entries, n-6 windows are emitted; the k-th is the mean *)
(* of the sums over the k-th to (k+6)-th entries in ascending date order,  *)
(* is labelled with the date of the (k+6)-th entry, and the labels ascend  *)
(* strictly.                                                               *)
(***************************************************************************)
C8_WindowsOverEntries ==
    pc = "done" /\ Cardinality(DOMAIN m) >= 7 =>
        /\ Len(out) = Cardinality(DOMAIN m) - 6
        /\ \A k \in 1..Len(out) :
              /\ out[k].date = NthDate(k + 6)
              /\ out[k].mean = MeanSum(RefSum(WindowDates(k)))
              /\ k > 1 => out[k - 1].date < out[k].date

\* Two windows over 8 entries, a date between them having no entry.
C8_Witness ==
    /\ pc = "done"
    /\ Cardinality(DOMAIN m) = 8
    /\ 4 \notin DOMAIN m
    /\ out[1].date = 7
    /\ out[2].date = 8
    /\ Len(out) = 2
    /\ out[1].date < out[2].date
    /\ out[1].mean # out[2].mean

(***************************************************************************)
(* C9.  Every count field of an emitted mean is the sum of the field over  *)
(* the 7 entries of the window, divided by 7 and truncated; diapers of     *)
(* 2, 3, 1, 4, 2, 0 and 5 give a mean of 17 div 7 = 2.                     *)
(***************************************************************************)
C9_CountMeansTruncate ==
    \A k \in 1..Len(out) : \A f \in CountFields :
        out[k].mean[f] = SetSumField(WindowDates(k), f) \div 7

\* The window over the days with 2, 3, 1, 4, 2, 0 and 5 diapers.
C9_Witness ==
    /\ pc = "done"
    /\ stdin = DiaperExample
    /\ [d \in DOMAIN m |-> m[d].total_diapers] =
           (0 :> 2) @@ (1 :> 3) @@ (2 :> 1) @@ (3 :> 4) @@ (4 :> 2) @@ (5 :> 0) @@ (6 :> 5)
    /\ Len(out) = 1
    /\ out[1].mean.total_diapers = 2

(***************************************************************************)
(* C10.  As stated: every duration field of an emitted mean is the exact   *)
(* mean of the field over the 7 entries of the window, 7 times the mean    *)
(* being the sum.                                                          *)
(***************************************************************************)
C10_Original ==
    \A k \in 1..Len(out) : \A f \in DurationFields :
        7 * out[k].mean[f] = SetSumField(WindowDates(k), f)

(***************************************************************************)
(* C10, amended.  Every duration field of an emitted mean is the sum of    *)
(* the field over the 7 entries of the window, in whole seconds, divided   *)
(* by 7 and truncated to whole seconds.                                    *)
(***************************************************************************)
C10_DurationMeansTruncate ==
    \A k \in 1..Len(out) : \A f \in DurationFields :
        /\ out[k].mean[f] = SetSumField(WindowDates(k), f) \div 7
        /\ 7 * out[k].mean[f] <= SetSumField(WindowDates(k), f)
        /\ SetSumField(WindowDates(k), f) < 7 * out[k].mean[f] + 7

\* A window whose summed sleep is not a multiple of 7 seconds.
C10_Witness ==
    /\ pc = "done"
    /\ Len(out) >= 1
    /\ SetSumField(WindowDates(1), "total_sleep_duration") % 7 = 4
    /\ 7 * out[1].mean.total_sleep_duration + 4 =
           SetSumField(WindowDates(1), "total_sleep_duration")

(***************************************************************************)
(* Orderings of an input: its reversal and, for an input of at most        *)
(* MaxPermLen events, the input as it is and every exchange of two         *)
(* neighbours in it.  The bounded input families are closed under          *)
(* permutation, and the exchanges of neighbours generate every             *)
(* permutation.                                                            *)
(***************************************************************************)
Reverse(s) == [i \in 1..Len(s) |-> s[Len(s) + 1 - i]]

Exchange(s, i) ==
    [k \in 1..Len(s) |-> IF k = i THEN s[i + 1] ELSE IF k = i + 1 THEN s[i] ELSE s[k]]

Reorderings(s) ==
    {Reverse(s)} \cup
        (IF Len(s) <= MaxPermLen
         THEN {s} \cup {Exchange(s, i) : i \in 1..(Len(s) - 1)}
         ELSE {})

\* No two events of one kind have the same time and different ounces: the
\* ounces of each kind are then added in one order, whatever the ordering.
SameOuncesAtEqualTimes(s) ==
    \A i, j \in 1..Len(s) :
        s[i].kind = s[j].kind /\ s[i].time = s[j].time =>
            s[i].ounces = s[j].ounces

OunceFields == {"bottle_oz", "pumping_oz"}

(***************************************************************************)
(* C11.  As stated: for every two orderings of one input the Daily Maps    *)
(* have the same dates and agree on every field other than                 *)
(* bottle_sessions.                                                        *)
(***************************************************************************)
C11_Original ==
    pc = "done" =>
        \A p \in Reorderings(stdin) :
            LET o == DailyMap(p)
            IN /\ DOMAIN o = DOMAIN m
               /\ \A d \in DOMAIN m : \A f \in SumFields \ {"bottle_sessions"} :
                      o[d][f] = m[d][f]

(***************************************************************************)
(* C11, amended.  For every two orderings of one input the Daily Maps have *)
(* the same dates and agree on every field other than bottle_sessions and  *)
(* the f32 sums bottle_oz and pumping_oz; they agree on bottle_oz and      *)
(* pumping_oz too unless two events of one kind have the same time and     *)
(* different ounces.                                                       *)
(***************************************************************************)
C11_OrderFreeTotals ==
    pc = "done" =>
        \A p \in Reorderings(stdin) :
            LET o == DailyMap(p)
            IN /\ DOMAIN o = DOMAIN m
               /\ \A d \in DOMAIN m :
                      \A f \in SumFields \ ({"bottle_sessions"} \cup OunceFields) :
                          o[d][f] = m[d][f]
               /\ SameOuncesAtEqualTimes(stdin) =>
                      \A d \in DOMAIN m : \A f \in OunceFields :
                          o[d][f] = m[d][f]

\* Bottles of 0.3, 0.4 and 0.6 oz at one time: read in the opposite order
\* they leave another bottle_oz, and the same dates.
C11_Witness ==
    /\ pc = "done"
    /\ stdin = <<Bottle(2040, Tenths(3)), Bottle(2040, Tenths(4)),
                 Bottle(2040, Tenths(6))>>
    /\ DOMAIN DailyMap(Reverse(stdin)) = DOMAIN m
    /\ DailyMap(Reverse(stdin))[1].bottle_oz # m[1].bottle_oz
    /\ DailyMap(Reverse(stdin))[1].total_diapers = m[1].total_diapers

(***************************************************************************)
(* C12.  In every step an entry of the map stays in the map, none of its   *)
(* fields other than bottle_sessions decreases and it does not go back to  *)
(* the initial Sum; an entry that a step creates is the initial, all-zero  *)
(* Sum with the contribution of the event of the step.                     *)
(***************************************************************************)
NonSessionFields == SumFields \ {"bottle_sessions"}

\* Sum::new() with the contribution of one event.
FirstSum(e) ==
    CASE e.kind = "Diaper" ->
           [SumNew EXCEPT !.total_diapers = 1,
                          !.poo_diapers = IF e.poo THEN 1 ELSE 0]
      [] e.kind = "Bottle" ->
           [SumNew EXCEPT !.bottle_sessions = 1, !.bottle_oz = e.ounces]
      [] e.kind \in {"LeftBreast", "RightBreast"} ->
           [SumNew EXCEPT !.breast_duration = e.duration]
      [] e.kind = "Pumping" -> [SumNew EXCEPT !.pumping_oz = e.ounces]
      [] e.kind = "TummyTime" -> [SumNew EXCEPT !.tummy_time_duration = e.duration]
      [] e.kind = "Sleep" ->
           [SumNew EXCEPT !.max_sleep_duration = e.duration,
                          !.total_sleep_duration = e.duration]

C12_EntriesOnlyGrow ==
    [][/\ \A d \in DOMAIN m :
             /\ d \in DOMAIN m'
             /\ \A f \in NonSessionFields : m'[d][f] >= m[d][f]
             /\ m[d] # SumNew => m'[d] # SumNew
       /\ \A d \in DOMAIN m' \ DOMAIN m :
             /\ pc = "agg"
             /\ idx <= Len(events)
             /\ m'[d] = FirstSum(events[idx])]_vars

\* An entry that a diaper created has grown by a breast feeding, and a
\* second entry has been created after it.
C12_Witness ==
    /\ pc = "agg"
    /\ DOMAIN m = {0, 1}
    /\ m[0].total_diapers = 1
    /\ m[0].breast_duration = 900
    /\ m[1] = FirstSum(events[idx - 1])

(***************************************************************************)
(* C13.  Processing a Bottle changes bottle_sessions of its date by 0 when *)
(* prev_bottle is set, is on the date of the bottle and is more than 60    *)
(* minutes before it, and by +1 in every other case: no previous bottle, a *)
(* previous bottle on another date, a gap of 60 minutes or less.           *)
(***************************************************************************)
C13_NetZero(prev, t) ==
    /\ prev # <<>>
    /\ prev[1] \div 1440 = t \div 1440
    /\ t - prev[1] > 60

C13_BottleNetChange ==
    [][pc = "agg" /\ idx <= Len(events) /\ events[idx].kind = "Bottle" =>
          LET t == events[idx].time
              d == t \div 1440
          IN /\ d \in DOMAIN m'
             /\ m'[d].bottle_sessions =
                    IF C13_NetZero(prev_bottle, t)
                    THEN SessionsOn(d) ELSE SessionsOn(d) + 1]_vars

\* 00:10, 10:30 and 11:30 of one date: +1, then 0 for the gap of 620
\* minutes, then +1 for the gap of exactly 60 minutes.
C13_Witness ==
    /\ pc = "done"
    /\ BottleTimesIn(events) = <<1450, 2070, 2130>>
    /\ m[1].bottle_sessions = 2

(***************************************************************************)
(* C14.  After every step of the loop prev_bottle is the time of the last  *)
(* Bottle processed so far, or unset if there is none; an event that is    *)
(* not a Bottle leaves it unchanged; a Bottle sets it to its own time also *)
(* when its increment is taken back, and the test that takes the increment *)
(* back reads the value from before the step.                              *)
(***************************************************************************)
LastBottle(s) ==
    LET b == BottleTimesIn(s) IN IF b = <<>> THEN None ELSE Some(b[Len(b)])

C14_PrevBottleIsLastBottle ==
    [][/\ pc' \in {"agg", "window", "done"} => prev_bottle' = LastBottle(Processed')
       /\ pc = "agg" /\ idx <= Len(events) /\ events[idx].kind # "Bottle" =>
              prev_bottle' = prev_bottle
       /\ pc = "agg" /\ idx <= Len(events) /\ events[idx].kind = "Bottle" =>
              LET t == events[idx].time
              IN /\ prev_bottle' = Some(t)
                 /\ C13_NetZero(prev_bottle, t) =>
                        m'[t \div 1440].bottle_sessions = SessionsOn(t \div 1440)
                 /\ m'[t \div 1440].bottle_sessions = SessionsOn(t \div 1440) =>
                        C13_NetZero(prev_bottle, t)]_vars

\* The bottle of 10:00 had its increment taken back and is prev_bottle, and
\* an event that is not a Bottle has been processed after it.
C14_Witness ==
    /\ pc = "done"
    /\ Len(events) = 3
    /\ BottleTimesIn(SubSeq(events, 1, 2)) = <<1450, 2040>>
    /\ events[3].kind = "Diaper"
    /\ m[1].bottle_sessions = 1
    /\ prev_bottle = Some(2040)

(***************************************************************************)
(* C15.  A step of the loop changes the map only at the bucket date of its *)
(* event: the date of the time of a Diaper, Feeding, Pumping or TummyTime, *)
(* the date of the end of a Sleep; a Sleep with no end and an event of     *)
(* another kind have no bucket date and change nothing.  The dates of the  *)
(* map are the bucket dates of the events processed so far, and no step    *)
(* outside the loop changes the map.                                       *)
(***************************************************************************)
BucketOf(e) ==
    IF e.kind = "Other" THEN {}
    ELSE IF e.kind = "Sleep"
         THEN (IF e.end = <<>> THEN {} ELSE {e.end[1] \div 1440})
         ELSE {e.time \div 1440}

C15_OnlyTheBucketDate ==
    [][/\ pc = "agg" /\ idx <= Len(events) =>
              LET b == BucketOf(events[idx])
              IN /\ DOMAIN m' = DOMAIN m \cup b
                 /\ \A d \in DOMAIN m \ b : m'[d] = m[d]
                 /\ b = {} => m' = m
       /\ ~(pc = "agg" /\ idx <= Len(events)) => m' = m
       /\ DOMAIN m' = UNION {BucketOf(Processed'[i]) : i \in 1..Len(Processed')}]_vars

\* Two dates in the map, the entry of day 0 as its only event left it, and
\* a Sleep with no end among the processed events.
C15_Witness ==
    /\ pc = "done"
    /\ Len(events) = 3
    /\ DOMAIN m = {0, 1}
    /\ m[0] = FirstSum(events[1])
    /\ \E i \in 2..3 : events[i].kind = "Sleep" /\ events[i].end = None

(***************************************************************************)
(* C16.  At any point of the aggregation bottle_sessions of a date is at   *)
(* least 0, at most the number of Bottles of the date processed so far,    *)
(* and at least 1 once a Bottle of the date has been processed.            *)
(***************************************************************************)
BottlesOn(s, d) ==
    Cardinality({i \in 1..Len(s) : s[i].kind = "Bottle" /\ s[i].time \div 1440 = d})

C16_SessionsBounded ==
    Aggregating =>
        \A d \in DOMAIN m :
            /\ 0 <= m[d].bottle_sessions
            /\ m[d].bottle_sessions <= BottlesOn(Processed, d)
            /\ BottlesOn(Processed, d) >= 1 => m[d].bottle_sessions >= 1

\* Three bottles of one date, each more than 60 minutes after the one
\* before: the two decrements leave the count at 1.
C16_Witness ==
    /\ pc = "done"
    /\ BottleTimesIn(events) = <<1450, 2040, 2131>>
    /\ m[1].bottle_sessions = 1

(***************************************************************************)
(* C17.  As stated: the Daily Map is the same for every ordering of one    *)
(* input, bottle_sessions and every other field.                           *)
(***************************************************************************)
C17_Original ==
    pc = "done" => \A p \in Reorderings(stdin) : DailyMap(p) = m

(***************************************************************************)
(* C17, amended.  bottle_sessions of every date is the same for every      *)
(* ordering of one input, events of equal time in any order; the whole     *)
(* Daily Map is the same for every ordering unless two events of one kind  *)
(* have the same time and different ounces.                                *)
(***************************************************************************)
C17_SessionsOrderFree ==
    pc = "done" =>
        \A p \in Reorderings(stdin) :
            LET o == DailyMap(p)
            IN /\ DOMAIN o = DOMAIN m
               /\ \A d \in DOMAIN m : o[d].bottle_sessions = m[d].bottle_sessions
               /\ SameOuncesAtEqualTimes(stdin) => o = m

\* A bottle of 10:30 read before a diaper and a bottle of 10:00, the two
\* of equal time: the opposite order leaves the same map, with 2 sessions.
C17_Witness ==
    /\ pc = "done"
    /\ stdin = <<Bottle(2070, Eighths(20)), Diaper(2040, FALSE),
                 Bottle(2040, Eighths(12))>>
    /\ SortByKey(Reverse(stdin)) # events
    /\ DailyMap(Reverse(stdin)) = m
    /\ m[1].bottle_sessions = 2

(***************************************************************************)
(* C18.  At any point poo_diapers of a date is at most its total_diapers,  *)
(* and in every emitted mean the mean poo_diapers is at most the mean      *)
(* total_diapers.                                                          *)
(***************************************************************************)
C18_PooAtMostTotal ==
    /\ \A d \in DOMAIN m : m[d].poo_diapers <= m[d].total_diapers
    /\ \A k \in 1..Len(out) : out[k].mean.poo_diapers <= out[k].mean.total_diapers

\* The window over 17 diapers, 7 of them with poo: means 1 and 2.
C18_Witness ==
    /\ pc = "done"
    /\ stdin = DiaperExample
    /\ SetSumField(DOMAIN m, "poo_diapers") = 7
    /\ out[1].mean.poo_diapers = 1
    /\ out[1].mean.total_diapers = 2

(***************************************************************************)
(* C19.  At any point max_sleep_duration of a date is at most its          *)
(* total_sleep_duration, and is zero or the duration of a processed Sleep  *)
(* that ends on the date; in every emitted mean the mean                   *)
(* max_sleep_duration is at most the mean total_sleep_duration.            *)
(***************************************************************************)
C19_MaxAtMostTotalSleep ==
    /\ \A d \in DOMAIN m :
          /\ m[d].max_sleep_duration <= m[d].total_sleep_duration
          /\ \/ m[d].max_sleep_duration = 0
             \/ \E i \in 1..Len(Processed) :
                    /\ EndsOn(Processed[i], d)
                    /\ Processed[i].duration = m[d].max_sleep_duration
    /\ \A k \in 1..Len(out) :
          out[k].mean.max_sleep_duration <= out[k].mean.total_sleep_duration

\* A window over days with two sleeps each: the mean of the maxima is
\* positive and below the mean of the totals.
C19_Witness ==
    /\ pc = "done"
    /\ Len(out) >= 1
    /\ \A d \in WindowDates(1) : 0 < m[d].max_sleep_duration
    /\ \A d \in WindowDates(1) : m[d].max_sleep_duration < m[d].total_sleep_duration
    /\ 0 < out[1].mean.max_sleep_duration
    /\ out[1].mean.max_sleep_duration < out[1].mean.total_sleep_duration
====
